---- MODULE Spec2Model ----
(***************************************************************************)
(* Model of aim_toolkit/get_wellcome_pub_ids.py: the command get_org_dois, *)
(* which lists the year partitions of a corpus (get_s3_uris), reads each   *)
(* one, flattens its funding acknowledgments and merges the batches        *)
(* (read_parquet), and writes the merged table.                            *)
(*                                                                         *)
(* Strings that the code takes apart or builds (the year arguments, the    *)
(* URIs) are sequences of one-character strings. A pandas DataFrame is a   *)
(* record [cols, rows]: cols is the column order, rows the sequence of     *)
(* rows, each row a record that carries its index label in field idx.      *)
(* None and NaN are both NULL (pandas' isna is true of both).              *)
(***************************************************************************)
EXTENDS Integers, Sequences, FiniteSets, TLC

VARIABLES pc, argv, grid_id, s3_uris, reads, df, df_funded, funding, dfs,
          result, writes, error

vars == <<pc, argv, grid_id, s3_uris, reads, df, df_funded, funding, dfs,
          result, writes, error>>

(***************************************************************************)
(* Bounds of the model.                                                    *)
(***************************************************************************)
\* number of consecutive years the year arguments of a get_s3_uris call range over
UriYearSpan == 3
\* number of consecutive years the year arguments of a command run range over
RunYearSpan == 2
\* records of one partition, when read_parquet is called on one location
MaxRecords == 3
\* funding acknowledgments of one partition, over all its records
MaxAcks == 2

NULL == "NULL"
NoFrame == [cols |-> <<>>, rows |-> <<>>]

(***************************************************************************)
(* Strings                                                                 *)
(***************************************************************************)
DigitChars == <<"0", "1", "2", "3", "4", "5", "6", "7", "8", "9">>

DigitVal(c) == (CHOOSE k \in 1..10 : DigitChars[k] = c) - 1

\* int(s) for a string of decimal digits
RECURSIVE int(_)
int(s) ==
    IF Len(s) = 0 THEN 0
    ELSE int(SubSeq(s, 1, Len(s) - 1)) * 10 + DigitVal(s[Len(s)])

\* f'{year}' for a non-negative integer
RECURSIVE FormatInt(_)
FormatInt(n) ==
    IF n < 10 THEN <<DigitChars[n + 1]>>
    ELSE FormatInt(n \div 10) \o <<DigitChars[(n % 10) + 1]>>

YearKey == <<"y", "e", "a", "r", "=">>
Slash == <<"/">>
DotZeroSlash == <<".", "0", "/">>

\* f'{base_uri}year={year}/'
IntYearUri(base_uri, year) == base_uri \o YearKey \o FormatInt(year) \o Slash

\* f'{base_uri}year={year}.0/'
FloatYearUri(base_uri, year) == base_uri \o YearKey \o FormatInt(year) \o DotZeroSlash

(***************************************************************************)
(* get_s3_uris                                                             *)
(***************************************************************************)
\* the for loop over range(year, stop), uris being the list built so far
RECURSIVE UriLoop(_, _, _, _)
UriLoop(base_uri, year, stop, uris) ==
    IF year >= stop THEN uris
    ELSE UriLoop(base_uri, year + 1, stop,
                 Append(Append(uris, IntYearUri(base_uri, year)),
                        FloatYearUri(base_uri, year)))

\* a listing that leaves the last year of the range out
get_s3_uris_exclusive(base_uri, start_year, end_year) ==
    UriLoop(base_uri, int(start_year), int(end_year), <<>>)

\* a listing that puts a reversed range in order instead of returning nothing
get_s3_uris_swapping(base_uri, start_year, end_year) ==
    IF int(end_year) < int(start_year)
    THEN UriLoop(base_uri, int(end_year), int(start_year) + 1, <<>>)
    ELSE UriLoop(base_uri, int(start_year), int(end_year) + 1, <<>>)

get_s3_uris(base_uri, start_year, end_year) ==
    UriLoop(base_uri, int(start_year), int(end_year) + 1, <<>>)

(***************************************************************************)
(* pandas: the statements of the loop body of read_parquet                 *)
(***************************************************************************)
ReadColumns == <<"doi", "funding", "pmid", "pmcid">>
OutputColumns == <<"doi", "grid_id", "pmid", "pmcid">>

\* an exploded empty list is one row holding NaN; as a funding element it has no identifier
NaNAck == [grid_id |-> NULL]

\* the table wr.s3.read_parquet returns for a partition holding the records recs:
\* the four columns asked for, under a fresh index 0..n-1
RawFrame(recs) ==
    [cols |-> ReadColumns,
     rows |-> [i \in 1..Len(recs) |->
                 [idx |-> i - 1, doi |-> recs[i].doi, funding |-> recs[i].funding,
                  pmid |-> recs[i].pmid, pmcid |-> recs[i].pmcid]]]

\* df['funding'].str.len() > 0, of one row
IsFunded(row) == Len(row.funding) > 0

\* df.loc[df['funding'].str.len() > 0]: the rows the mask is true of, labels kept
LocFunded(frame) == [frame EXCEPT !.rows = SelectSeq(frame.rows, IsFunded)]

\* explode('funding') of one row: one row per element, each under the row's own label
ExplodeRow(row) ==
    IF Len(row.funding) = 0 THEN <<[row EXCEPT !.funding = NaNAck]>>
    ELSE [k \in 1..Len(row.funding) |-> [row EXCEPT !.funding = row.funding[k]]]

RECURSIVE ExplodeRows(_)
ExplodeRows(rows) ==
    IF Len(rows) = 0 THEN <<>>
    ELSE ExplodeRow(Head(rows)) \o ExplodeRows(Tail(rows))

Explode(frame) == [frame EXCEPT !.rows = ExplodeRows(frame.rows)]

\* the explosion without the length mask in front of it
FundedExploded_unmasked(frame) == Explode(frame)

\* df.loc[df['funding'].str.len() > 0].explode('funding')
FundedExploded(frame) == Explode(LocFunded(frame))

\* pd.DataFrame(df_funded['funding'].to_list()): a new table under a fresh index
\* 0..n-1 whose columns are the keys of the dicts; no rows, no columns
FundingFrame(frame) ==
    [cols |-> IF Len(frame.rows) = 0 THEN <<>> ELSE <<"grid_id">>,
     rows |-> [k \in 1..Len(frame.rows) |->
                 [idx |-> k - 1, grid_id |-> frame.rows[k].funding.grid_id]]]

HasColumn(frame, c) == \E k \in 1..Len(frame.cols) : frame.cols[k] = c

\* funding['grid_id'].reindex(df_funded.index), at one label: the value the series
\* holds under that label, NaN where it holds none
GridIdAt(fund, label) ==
    IF \E k \in 1..Len(fund.rows) : fund.rows[k].idx = label
    THEN fund.rows[CHOOSE k \in 1..Len(fund.rows) : fund.rows[k].idx = label].grid_id
    ELSE NULL

\* df_funded['grid_id'] = funding['grid_id']: the column is aligned on the index labels
AssignGridId(frame, fund) ==
    [cols |-> Append(frame.cols, "grid_id"),
     rows |-> [k \in 1..Len(frame.rows) |->
                 [idx |-> frame.rows[k].idx, doi |-> frame.rows[k].doi,
                  funding |-> frame.rows[k].funding, pmid |-> frame.rows[k].pmid,
                  pmcid |-> frame.rows[k].pmcid,
                  grid_id |-> GridIdAt(fund, frame.rows[k].idx)]]]

\* df_funded['grid_id'] == grid_id, of one row (a comparison with None or NaN is False)
GridIdEquals(row, g) == g # NULL /\ row.grid_id # NULL /\ row.grid_id = g

\* ~df_funded['pmid'].isna(), of one row
PmidNotNa(row) == row.pmid # NULL

\* df_funded[['doi', 'grid_id', 'pmid', 'pmcid']]
ProjectOutput(frame) ==
    [cols |-> OutputColumns,
     rows |-> [k \in 1..Len(frame.rows) |->
                 [idx |-> frame.rows[k].idx, doi |-> frame.rows[k].doi,
                  grid_id |-> frame.rows[k].grid_id, pmid |-> frame.rows[k].pmid,
                  pmcid |-> frame.rows[k].pmcid]]]

RECURSIVE ConcatRows(_)
ConcatRows(frames) ==
    IF Len(frames) = 0 THEN <<>>
    ELSE Head(frames).rows \o ConcatRows(Tail(frames))

RECURSIVE ConcatRowsReversed(_)
ConcatRowsReversed(frames) ==
    IF Len(frames) = 0 THEN <<>>
    ELSE ConcatRowsReversed(Tail(frames)) \o Head(frames).rows

\* a merge that stacks the batches last to first
concat_reversed(frames) == [cols |-> frames[1].cols, rows |-> ConcatRowsReversed(frames)]

\* pd.concat(dfs), for a non-empty list of tables that have the same columns
concat(frames) == [cols |-> frames[1].cols, rows |-> ConcatRows(frames)]

\* the file to_parquet(df, uri, index=False) writes: the columns, without the index
WrittenTable(frame) ==
    [cols |-> frame.cols,
     rows |-> [k \in 1..Len(frame.rows) |->
                 [doi |-> frame.rows[k].doi, grid_id |-> frame.rows[k].grid_id,
                  pmid |-> frame.rows[k].pmid, pmcid |-> frame.rows[k].pmcid]]]

(***************************************************************************)
(* The command line                                                        *)
(***************************************************************************)
\* the default of the grid_id parameter in the signature of get_org_dois
DefaultGridId == "grid.52788.30"

\* the keyword arguments click calls the command function with: one per declared
\* parameter; an option declared without a default and not given is passed as None
ClickParams(args) ==
    [input_uri |-> args.input_uri, output_uri |-> args.output_uri,
     start_year |-> args.start_year, end_year |-> args.end_year,
     grid_id |-> IF args.grid_opt = {} THEN NULL
                 ELSE CHOOSE g \in args.grid_opt : TRUE]

\* the value the grid_id parameter is bound to: the signature's default applies
\* only when the call passes no grid_id
BoundGridId(kwargs) ==
    IF "grid_id" \in DOMAIN kwargs THEN kwargs.grid_id ELSE DefaultGridId

(***************************************************************************)
(* Inputs                                                                  *)
(***************************************************************************)
OtherGridId == "grid.1.1"
Orgs == {DefaultGridId, OtherGridId}

BaseB == <<"s", "3", ":", "/", "/", "b", "/">>
BaseIn == <<"s", "3", ":", "/", "/", "i", "n", "/", "p", "=", "1", "/">>
OutUri == <<"s", "3", ":", "/", "/", "o", "u", "t", "/">>

UriYears == 2019..(2019 + UriYearSpan - 1)
RunYears == 2019..(2019 + RunYearSpan - 1)

\* the year arguments of a get_s3_uris call: plain and zero-padded decimal strings
UriYearArgs == {FormatInt(y) : y \in UriYears} \cup {<<"0">> \o FormatInt(y) : y \in UriYears}
RunYearArgs == {FormatInt(y) : y \in RunYears}

NoArgs == [input_uri |-> <<>>, output_uri |-> <<>>, start_year |-> <<>>,
           end_year |-> <<>>, grid_opt |-> {}]

UriArgs ==
    {[NoArgs EXCEPT !.input_uri = b, !.start_year = s, !.end_year = e] :
        b \in {BaseB, BaseIn}, s \in UriYearArgs, e \in UriYearArgs}

RunArgs ==
    {[input_uri |-> BaseB, output_uri |-> OutUri, start_year |-> s, end_year |-> e,
      grid_opt |-> o] :
        s \in RunYearArgs, e \in RunYearArgs, o \in {{}} \cup {{g} : g \in Orgs}}

Ack(g) == [grid_id |-> g]

GridValues == Orgs \cup {NULL}
PmidValues == {"1", NULL}
PmcidValues == {"PMC1", NULL}

DoiNames == <<"10.1/a", "10.1/b", "10.1/c", "10.1/d", "10.1/e", "10.1/f">>

\* lens[1] + ... + lens[n]
RECURSIVE SumTo(_, _)
SumTo(lens, n) == IF n = 0 THEN 0 ELSE SumTo(lens, n - 1) + lens[n]

\* the partition of Len(lens) records in which record i has the i-th DOI, pmid pmids[i],
\* pmcid pmcids[i] and lens[i] acknowledgments, grids listing the organization
\* identifiers of all the acknowledgments in order
BoundedRecords(lens, grids, pmids, pmcids) ==
    [i \in 1..Len(lens) |->
        [doi |-> DoiNames[i],
         funding |-> [k \in 1..lens[i] |-> Ack(grids[SumTo(lens, i - 1) + k])],
         pmid |-> pmids[i], pmcid |-> pmcids[i]]]

\* the partitions a command run finds at its locations
RunRecordSeqs ==
    { <<>>,
      <<[doi |-> "10.1/u", funding |-> <<>>, pmid |-> "7", pmcid |-> NULL]>>,
      <<[doi |-> "10.1/a", funding |-> <<Ack(DefaultGridId)>>, pmid |-> "1", pmcid |-> "PMC1"]>>,
      <<[doi |-> "10.1/b", funding |-> <<Ack(OtherGridId)>>, pmid |-> NULL, pmcid |-> NULL]>>,
      <<[doi |-> "10.1/c", funding |-> <<Ack(OtherGridId), Ack(DefaultGridId)>>,
         pmid |-> "3", pmcid |-> NULL]>>,
      <<[doi |-> "10.1/d", funding |-> <<>>, pmid |-> "4", pmcid |-> NULL],
        [doi |-> "10.1/e", funding |-> <<Ack(DefaultGridId)>>, pmid |-> "5", pmcid |-> NULL]>>,
      <<[doi |-> "10.1/f", funding |-> <<Ack(DefaultGridId)>>, pmid |-> "6", pmcid |-> "PMC6"],
        [doi |-> "10.1/g", funding |-> <<Ack(OtherGridId)>>, pmid |-> "8", pmcid |-> NULL]>> }

RunFrames == {RawFrame(recs) : recs \in RunRecordSeqs}

(***************************************************************************)
(* State                                                                   *)
(*   pc         where the program is                                       *)
(*   argv       the command line (or the arguments of a direct call)       *)
(*   grid_id    the grid_id parameter                                      *)
(*   s3_uris    the list of locations read_parquet is given                *)
(*   reads      the reads issued to storage so far, in order, each with    *)
(*              its outcome                                                *)
(*   df, df_funded, funding, dfs   the locals of read_parquet              *)
(*   result     the table read_parquet returned                            *)
(*   writes     the writes issued to storage so far                        *)
(*   error      the exception that ended the run, if any                   *)
(***************************************************************************)
InitLocals ==
    /\ reads = <<>>
    /\ df = NoFrame
    /\ df_funded = NoFrame
    /\ funding = NoFrame
    /\ dfs = <<>>
    /\ result = NoFrame
    /\ writes = <<>>
    /\ error = "none"

\* a run of the command
Init ==
    /\ pc = "main"
    /\ argv \in RunArgs
    /\ grid_id = NULL
    /\ s3_uris = <<>>
    /\ InitLocals

\* a call of get_s3_uris
InitUris ==
    /\ pc = "get_s3_uris"
    /\ argv \in UriArgs
    /\ grid_id = NULL
    /\ s3_uris = <<>>
    /\ InitLocals

\* a call of read_parquet on a list of at most one location
InitRead ==
    /\ pc = "loop"
    /\ argv = NoArgs
    /\ grid_id \in Orgs
    /\ s3_uris \in {<<>>, <<IntYearUri(BaseB, 2019)>>}
    /\ InitLocals

\* get_s3_uris(base_uri, start_year, end_year) called on its own
CallGetS3Uris ==
    /\ pc = "get_s3_uris"
    /\ s3_uris' = get_s3_uris(argv.input_uri, argv.start_year, argv.end_year)
    /\ pc' = "uris_returned"
    /\ UNCHANGED <<argv, grid_id, reads, df, df_funded, funding, dfs, result, writes, error>>

\* click calls get_org_dois; line 83, and the call of read_parquet up to dfs = []
Invoke ==
    /\ pc = "main"
    /\ grid_id' = BoundGridId(ClickParams(argv))
    /\ s3_uris' = get_s3_uris(argv.input_uri, argv.start_year, argv.end_year)
    /\ dfs' = <<>>
    /\ pc' = "loop"
    /\ UNCHANGED <<argv, reads, df, df_funded, funding, result, writes, error>>

\* wr.s3.read_parquet(uri, ...) of the next location returns a table
ReadOk(frame) ==
    /\ pc = "loop"
    /\ Len(reads) < Len(s3_uris)
    /\ df' = frame
    /\ reads' = Append(reads, [uri |-> s3_uris[Len(reads) + 1], ok |-> TRUE, df |-> frame])
    /\ pc' = "explode"
    /\ UNCHANGED <<argv, grid_id, s3_uris, df_funded, funding, dfs, result, writes, error>>

\* a command run finds one of its partitions at the location
ReadRun ==
    /\ pc = "loop"
    /\ Len(reads) < Len(s3_uris)
    /\ \E frame \in RunFrames : ReadOk(frame)

\* a direct call finds any partition within the bounds at the location
ReadBounded ==
    /\ pc = "loop"
    /\ Len(reads) < Len(s3_uris)
    /\ \E n \in 0..MaxRecords :
          \E lens \in [1..n -> 0..MaxAcks], pmids \in [1..n -> PmidValues],
             pmcids \in [1..n -> PmcidValues] :
             /\ SumTo(lens, n) <= MaxAcks
             /\ \E grids \in [1..SumTo(lens, n) -> GridValues] :
                   ReadOk(RawFrame(BoundedRecords(lens, grids, pmids, pmcids)))

\* a failed read that is passed over: the loop goes on to the next location
ReadFail_skipped ==
    /\ pc = "loop"
    /\ Len(reads) < Len(s3_uris)
    /\ reads' = Append(reads, [uri |-> s3_uris[Len(reads) + 1], ok |-> FALSE, df |-> NoFrame])
    /\ UNCHANGED <<pc, argv, grid_id, s3_uris, df, df_funded, funding, dfs, result, writes,
                   error>>

\* wr.s3.read_parquet(uri, ...) of the next location raises: nothing catches it
ReadFail ==
    /\ pc = "loop"
    /\ Len(reads) < Len(s3_uris)
    /\ reads' = Append(reads, [uri |-> s3_uris[Len(reads) + 1], ok |-> FALSE, df |-> NoFrame])
    /\ pc' = "failed"
    /\ error' = "StorageReadFailure"
    /\ UNCHANGED <<argv, grid_id, s3_uris, df, df_funded, funding, dfs, result, writes>>

\* line 48
ExplodeFunded ==
    /\ pc = "explode"
    /\ df_funded' = FundedExploded(df)
    /\ pc' = "funding"
    /\ UNCHANGED <<argv, grid_id, s3_uris, reads, df, funding, dfs, result, writes, error>>

\* line 49
BuildFunding ==
    /\ pc = "funding"
    /\ funding' = FundingFrame(df_funded)
    /\ pc' = "assign"
    /\ UNCHANGED <<argv, grid_id, s3_uris, reads, df, df_funded, dfs, result, writes, error>>

\* line 50
AssignOk ==
    /\ pc = "assign"
    /\ HasColumn(funding, "grid_id")
    /\ df_funded' = AssignGridId(df_funded, funding)
    /\ pc' = "filter"
    /\ UNCHANGED <<argv, grid_id, s3_uris, reads, df, funding, dfs, result, writes, error>>

\* line 50, funding['grid_id'] of a table without that column
AssignKeyError ==
    /\ pc = "assign"
    /\ ~HasColumn(funding, "grid_id")
    /\ pc' = "failed"
    /\ error' = "KeyError"
    /\ UNCHANGED <<argv, grid_id, s3_uris, reads, df, df_funded, funding, dfs, result, writes>>

\* lines 51 to 54: the two selections of lines 51 and 52 are evaluated and their
\* values dropped (nothing is assigned), line 53 projects, line 54 appends
ProjectAppend ==
    /\ pc = "filter"
    /\ df_funded' = ProjectOutput(df_funded)
    /\ dfs' = Append(dfs, df_funded')
    /\ pc' = "loop"
    /\ UNCHANGED <<argv, grid_id, s3_uris, reads, df, funding, result, writes, error>>

\* line 56, and the return to the caller
ConcatOk ==
    /\ pc = "loop"
    /\ Len(reads) = Len(s3_uris)
    /\ dfs # <<>>
    /\ result' = concat(dfs)
    /\ pc' = "returned"
    /\ UNCHANGED <<argv, grid_id, s3_uris, reads, df, df_funded, funding, dfs, writes, error>>

\* line 56, pd.concat of an empty list
ConcatValueError ==
    /\ pc = "loop"
    /\ Len(reads) = Len(s3_uris)
    /\ dfs = <<>>
    /\ pc' = "failed"
    /\ error' = "ValueError"
    /\ UNCHANGED <<argv, grid_id, s3_uris, reads, df, df_funded, funding, dfs, result, writes>>

\* line 85, the write succeeds
WriteOk ==
    /\ pc = "returned"
    /\ writes' = Append(writes, [uri |-> argv.output_uri, table |-> WrittenTable(result)])
    /\ pc' = "done"
    /\ UNCHANGED <<argv, grid_id, s3_uris, reads, df, df_funded, funding, dfs, result, error>>

\* line 85, the write raises
WriteFail ==
    /\ pc = "returned"
    /\ writes' = Append(writes, [uri |-> argv.output_uri, table |-> NoFrame])
    /\ pc' = "failed"
    /\ error' = "StorageWriteFailure"
    /\ UNCHANGED <<argv, grid_id, s3_uris, reads, df, df_funded, funding, dfs, result>>

Next ==
    \/ Invoke
    \/ ReadRun
    \/ ReadFail
    \/ ExplodeFunded
    \/ BuildFunding
    \/ AssignOk
    \/ AssignKeyError
    \/ ProjectAppend
    \/ ConcatOk
    \/ ConcatValueError
    \/ WriteOk
    \/ WriteFail

NextUris == CallGetS3Uris

NextRead ==
    \/ ReadBounded
    \/ ReadFail
    \/ ExplodeFunded
    \/ BuildFunding
    \/ AssignOk
    \/ AssignKeyError
    \/ ProjectAppend
    \/ ConcatOk
    \/ ConcatValueError

\* the command, run from the command line
Spec == Init /\ [][Next]_vars

\* get_s3_uris, called on its own
SpecUris == InitUris /\ [][NextUris]_vars

\* read_parquet, called on its own
SpecRead == InitRead /\ [][NextRead]_vars

(***************************************************************************)
(* Properties                                                              *)
(***************************************************************************)
RECURSIVE TotalFunding(_)
TotalFunding(rows) ==
    IF Len(rows) = 0 THEN 0 ELSE Len(Head(rows).funding) + TotalFunding(Tail(rows))

\* the number of rows of the first n of the tables
RECURSIVE RowsBefore(_, _)
RowsBefore(frames, n) ==
    IF n = 0 THEN 0 ELSE RowsBefore(frames, n - 1) + Len(frames[n].rows)

StartYear == int(argv.start_year)
EndYear == int(argv.end_year)
Merged == pc \in {"returned", "done"}

\* C1: every row of the merged table read_parquet returns, and of the table
\* get_org_dois writes, has grid_id equal to the target organization identifier
\* and a pmid that is not null.
C1_OutputRowsMatchTarget ==
    Merged =>
        /\ \A k \in 1..Len(result.rows) :
              result.rows[k].grid_id = grid_id /\ result.rows[k].pmid # NULL
        /\ \A w \in 1..Len(writes) : \A k \in 1..Len(writes[w].table.rows) :
              /\ writes[w].table.rows[k].grid_id = grid_id
              /\ writes[w].table.rows[k].pmid # NULL

\* C2: the batch a partition contributes is exactly the flattened rows whose grid_id
\* equals the target and whose pmid is not null, in the columns doi, grid_id, pmid,
\* pmcid in that order.
C2_BatchIsFilteredProjection ==
    (pc = "loop" /\ Len(dfs) = 1) =>
        LET flat == FundedExploded(df)
            flattened == AssignGridId(flat, FundingFrame(flat))
            Keep(row) == row.grid_id = grid_id /\ row.pmid # NULL
        IN  /\ dfs[1].cols = <<"doi", "grid_id", "pmid", "pmcid">>
            /\ dfs[1] = ProjectOutput([flattened EXCEPT
                                          !.rows = SelectSeq(flattened.rows, Keep)])

\* C3: get_s3_uris returns, for each year of the inclusive range in ascending order,
\* the location base+"year="+y+"/" and then base+"year="+y+".0/", and nothing else;
\* for base "s3://b/" and the years 2019 to 2020 that is the four locations listed.
C3_UrisEnumerateYears ==
    pc = "uris_returned" =>
        LET n == IF EndYear >= StartYear THEN EndYear - StartYear + 1 ELSE 0
        IN  /\ Len(s3_uris) = 2 * n
            /\ \A k \in 0..(n - 1) :
                  /\ s3_uris[2 * k + 1] =
                        argv.input_uri \o <<"y", "e", "a", "r", "=">>
                            \o FormatInt(StartYear + k) \o <<"/">>
                  /\ s3_uris[2 * k + 2] =
                        argv.input_uri \o <<"y", "e", "a", "r", "=">>
                            \o FormatInt(StartYear + k) \o <<".", "0", "/">>
            /\ (/\ argv.input_uri = <<"s", "3", ":", "/", "/", "b", "/">>
                /\ argv.start_year = <<"2", "0", "1", "9">>
                /\ argv.end_year = <<"2", "0", "2", "0">>)
               => s3_uris =
                    << <<"s", "3", ":", "/", "/", "b", "/", "y", "e", "a", "r", "=",
                         "2", "0", "1", "9", "/">>,
                       <<"s", "3", ":", "/", "/", "b", "/", "y", "e", "a", "r", "=",
                         "2", "0", "1", "9", ".", "0", "/">>,
                       <<"s", "3", ":", "/", "/", "b", "/", "y", "e", "a", "r", "=",
                         "2", "0", "2", "0", "/">>,
                       <<"s", "3", ":", "/", "/", "b", "/", "y", "e", "a", "r", "=",
                         "2", "0", "2", "0", ".", "0", "/">> >>

C3_Witness ==
    /\ pc = "uris_returned"
    /\ EndYear = StartYear + 1
    /\ Len(s3_uris) = 4
    /\ Head(argv.start_year) = "0"

\* C4: the reads are issued one per location in the order of get_s3_uris; at most
\* one write is issued, and only after every location was read successfully; a
\* failed read is the last read, ends the run with that failure, and leaves no
\* write and no result.
C4_AllOrNothing ==
    /\ Len(reads) <= Len(s3_uris)
    /\ \A k \in 1..Len(reads) : reads[k].uri = s3_uris[k]
    /\ Len(writes) <= 1
    /\ writes # <<>> =>
          /\ Len(reads) = Len(s3_uris)
          /\ \A k \in 1..Len(reads) : reads[k].ok
    /\ \A k \in 1..Len(reads) :
          ~reads[k].ok =>
              /\ k = Len(reads)
              /\ pc = "failed"
              /\ error = "StorageReadFailure"
              /\ writes = <<>>
              /\ result = NoFrame

C4_Witness ==
    /\ pc = "failed"
    /\ error = "StorageReadFailure"
    /\ Len(reads) = 3
    /\ Len(s3_uris) = 4
    /\ Len(dfs) = 2
    /\ writes = <<>>

\* C5: a run in which storage does not fail and no row matches the target ends by
\* writing an empty table with the columns doi, grid_id, pmid, pmcid.
C5_EmptyResultCompletes ==
    LET NoRowMatches ==
            \A k \in 1..Len(reads) : \A i \in 1..Len(reads[k].df.rows) :
                LET rec == reads[k].df.rows[i]
                IN  \A a \in 1..Len(rec.funding) :
                        ~(grid_id # NULL /\ rec.funding[a].grid_id = grid_id
                          /\ rec.pmid # NULL)
    IN  (/\ pc \in {"done", "failed"}
         /\ error \notin {"StorageReadFailure", "StorageWriteFailure"}
         /\ NoRowMatches)
        => /\ pc = "done"
           /\ Len(writes) = 1
           /\ writes[1].table = [cols |-> <<"doi", "grid_id", "pmid", "pmcid">>, rows |-> <<>>]

\* C6: the merged table is the batches of the locations, in the order the locations
\* were visited, stacked one after the other with each batch's rows in their order:
\* no row is moved, dropped or repeated.
C6_MergePreservesOrder ==
    Merged =>
        /\ Len(dfs) = Len(s3_uris)
        /\ Len(reads) = Len(s3_uris)
        /\ \A k \in 1..Len(dfs) :
              /\ reads[k].uri = s3_uris[k]
              /\ \A j \in 1..Len(dfs[k].rows) :
                    /\ \E i \in 1..Len(reads[k].df.rows) :
                          /\ reads[k].df.rows[i].idx = dfs[k].rows[j].idx
                          /\ reads[k].df.rows[i].doi = dfs[k].rows[j].doi
                    /\ result.rows[RowsBefore(dfs, k - 1) + j] = dfs[k].rows[j]
        /\ Len(result.rows) = RowsBefore(dfs, Len(dfs))

C6_Witness ==
    /\ pc = "done"
    /\ Len(dfs) = 4
    /\ Len(dfs[1].rows) = 2
    /\ dfs[1] # dfs[2]
    /\ dfs[2] # dfs[3]
    /\ Len(result.rows) >= 5

\* C7: the target organization identifier passed to read_parquet is the value of
\* --grid_id when the flag is given and 'grid.52788.30' when it is not.
C7_DefaultGridId ==
    pc # "main" =>
        grid_id = IF argv.grid_opt = {} THEN "grid.52788.30"
                  ELSE CHOOSE g \in argv.grid_opt : TRUE

\* C8: get_s3_uris with end_year < start_year returns an empty sequence and raises
\* no error.
C8_EmptyRange ==
    (pc = "uris_returned" /\ EndYear < StartYear) => (s3_uris = <<>> /\ error = "none")

C8_Witness ==
    /\ pc = "uris_returned"
    /\ EndYear < StartYear
    /\ s3_uris = <<>>

\* C9: after the grid_id column is set, every flattened row's grid_id is the
\* organization identifier of the acknowledgment the row was expanded from.
C9_GridIdOfOwnAcknowledgment ==
    pc = "filter" =>
        \A k \in 1..Len(df_funded.rows) :
            df_funded.rows[k].grid_id = df_funded.rows[k].funding.grid_id

\* C10: flattening yields, for every record, as many rows as its funding sequence is
\* long, each with the record's doi, pmid and pmcid; a record with empty funding
\* yields none, and the row count is the sum of the funding lengths.
C10_FlattenCardinality ==
    pc = "funding" =>
        /\ Len(df_funded.rows) = TotalFunding(df.rows)
        /\ \A i \in 1..Len(df.rows) :
              LET mine == {k \in 1..Len(df_funded.rows) :
                              df_funded.rows[k].idx = df.rows[i].idx}
              IN  /\ Cardinality(mine) = Len(df.rows[i].funding)
                  /\ \A k \in mine :
                        /\ df_funded.rows[k].doi = df.rows[i].doi
                        /\ df_funded.rows[k].pmid = df.rows[i].pmid
                        /\ df_funded.rows[k].pmcid = df.rows[i].pmcid

C10_Witness ==
    /\ pc = "funding"
    /\ Len(df.rows) = 3
    /\ Len(df.rows[1].funding) = 0
    /\ Len(df.rows[2].funding) = 2
    /\ Len(df_funded.rows) = 2
    /\ df.rows[2].pmid # df.rows[3].pmid

====
